---- MODULE Spec2Model ----
(***************************************************************************)
(* A model of the simple-redis storage engine: the Backend store with its  *)
(* three namespaces (src/src/backend/mod.rs) and the ECHO / SADD /         *)
(* SMEMBERS / SISMEMBER commands with their request conversion and         *)
(* execution (src/src/cmd/echo.rs, src/src/cmd/set.rs).                    *)
(*                                                                         *)
(* Strings and byte payloads are sequences of byte values (0..255).        *)
(* A RespFrame is a record [kind, bytes].  An Option is None or Some(v).   *)
(***************************************************************************)
EXTENDS Integers, Sequences, FiniteSets, TLC

VARIABLES
    map,        \* BackendInner.map     : key -> RespFrame
    hmap,       \* BackendInner.hmap    : key -> (field -> RespFrame)
    set_map,    \* BackendInner.set_map : key -> set of members
    history,    \* the writes executed so far, oldest first, with what they returned
    req,        \* the request (RespArray) being converted
    last,       \* the most recent call: its arguments and what it returned
    callers,    \* the concurrent callers: the call each is in and how far it got
    locks,      \* the shard locks held, each with its holder and its mode
    shard       \* the shard each key (outer maps) and each field or member
                \* (inner containers) hashes to

vars == <<map, hmap, set_map, history, req, last, callers, locks, shard>>

store == <<map, hmap, set_map>>

----------------------------------------------------------------------------
(* Bounds of the model *)

\* the number of writes a behaviour performs
MaxOps == 2

\* the length of the member list of an SADD and of the field list of an HMGET
MaxLen == 2

\* the number of trailing arguments of a request
MaxArgs == 3

----------------------------------------------------------------------------
(* Values *)

Range(s) == {s[i] : i \in 1..Len(s)}

SeqsUpTo(S, n) == UNION {[1..m -> S] : m \in 0..n}

None == [some |-> FALSE]

Some(v) == [some |-> TRUE, value |-> v]

BulkString(b) == [kind |-> "BulkString", bytes |-> b]

NullFrame == [kind |-> "Null", bytes |-> <<>>]

RespArray(items) == [kind |-> "Array", items |-> items]

\* "a", "ab", "b" and the byte 0xFF, which no UTF-8 text contains
StrA == <<97>>

StrAB == <<97, 98>>

StrB == <<98>>

BadBytes == <<255>>

Keys == {StrA, StrB}

Fields == {StrA, StrB}

Members == {StrAB, StrB}

Values == {BulkString(<<118>>), BulkString(<<119>>), NullFrame}

\* the empty DashMap
EmptyMap == [k \in {} |-> {}]

\* DashMap::insert / the write through an entry: the key is created or overwritten
Put(m, k, v) == [x \in (DOMAIN m) \cup {k} |-> IF x = k THEN v ELSE m[x]]

----------------------------------------------------------------------------
(* Backend: the scalar namespace *)

get(m, key) ==
    IF key \in DOMAIN m THEN Some(m[key]) ELSE None

\* a faulty set, which keeps the value a key already has
set_keep_old(m, key, value) ==
    IF key \in DOMAIN m THEN m ELSE Put(m, key, value)

set(m, key, value) ==
    Put(m, key, value)

----------------------------------------------------------------------------
(* Backend: the hash namespace *)

hget(h, key, field) ==
    IF key \in DOMAIN h
    THEN IF field \in DOMAIN h[key] THEN Some(h[key][field]) ELSE None
    ELSE None

\* a faulty hmget, which returns the empty list for an absent key
hmget_short_on_absent(h, key, fields) ==
    IF key \in DOMAIN h
    THEN [i \in 1..Len(fields) |->
            IF fields[i] \in DOMAIN h[key] THEN Some(h[key][fields[i]]) ELSE None]
    ELSE <<>>

hmget(h, key, fields) ==
    IF key \in DOMAIN h
    THEN [i \in 1..Len(fields) |->
            IF fields[i] \in DOMAIN h[key] THEN Some(h[key][fields[i]]) ELSE None]
    ELSE [i \in 1..Len(fields) |-> None]

\* a faulty hset, which replaces the hash at the key
hset_fresh_hash(h, key, field, value) ==
    Put(h, key, Put(EmptyMap, field, value))

hset(h, key, field, value) ==
    LET inner == IF key \in DOMAIN h THEN h[key] ELSE EmptyMap
    IN  Put(h, key, Put(inner, field, value))

hgetall(h, key) ==
    IF key \in DOMAIN h THEN Some(h[key]) ELSE None

----------------------------------------------------------------------------
(* Backend: the set namespace *)

smembers(s, key) ==
    IF key \in DOMAIN s THEN Some(s[key]) ELSE None

\* values.iter().filter(|value| set.insert(value)).count(): DashSet::insert is
\* true exactly when the value was not in the set
RECURSIVE sadd_filter_count(_, _, _, _)
sadd_filter_count(cur, values, i, n) ==
    IF i > Len(values)
    THEN [set |-> cur, count |-> n]
    ELSE IF values[i] \in cur
         THEN sadd_filter_count(cur, values, i + 1, n)
         ELSE sadd_filter_count(cur \cup {values[i]}, values, i + 1, n + 1)

\* a faulty sadd, which returns the length of the list
sadd_count_all(s, key, values) ==
    LET cur == IF key \in DOMAIN s THEN s[key] ELSE {}
    IN  [set_map |-> Put(s, key, cur \cup Range(values)), ret |-> Len(values)]

\* a faulty sadd, which replaces the set at the key
sadd_fresh_set(s, key, values) ==
    LET r == sadd_filter_count({}, values, 1, 0)
    IN  [set_map |-> Put(s, key, r.set), ret |-> r.count]

sadd(s, key, values) ==
    LET cur == IF key \in DOMAIN s THEN s[key] ELSE {}
        r   == sadd_filter_count(cur, values, 1, 0)
    IN  [set_map |-> Put(s, key, r.set), ret |-> r.count]

\* a faulty sismember, which looks in the sets of all keys
sismember_any_key(s, key, value) ==
    IF \E k \in DOMAIN s : value \in s[k] THEN 1 ELSE 0

sismember(s, key, value) ==
    LET ismember == IF key \in DOMAIN s THEN value \in s[key] ELSE FALSE
    IN  IF ismember THEN 1 ELSE 0

----------------------------------------------------------------------------
(* The state after Backend::new() *)

\* the threads that share one Backend (Backend is a clone of an Arc)
Callers == {"c1", "c2"}

\* the shards of a DashMap, each behind its own read-write lock
Shards == {1, 2}

\* what hashes into the shards of the inner containers
Items == Fields \cup Members

\* what a call has collected or returned, with the kind of value it is
Result(kind, val) == [kind |-> kind, val |-> val]

NoResult == Result("none", 0)

\* a caller that has not called yet
IdleCaller ==
    [pc |-> "idle", call |-> [op |-> "none"], i |-> 0, acc |-> NoResult,
     ret |-> NoResult, before |-> {}]

\* no caller in a call, no lock held; sequential calls do not depend on the shards
Sequential ==
    /\ callers = [c \in Callers |-> IdleCaller]
    /\ locks = {}
    /\ shard = [outer |-> [k \in Keys |-> 1], inner |-> [x \in Items |-> 1]]

Init ==
    /\ map = EmptyMap
    /\ hmap = EmptyMap
    /\ set_map = EmptyMap
    /\ history = <<>>
    /\ req = <<>>
    /\ last = [op |-> "new"]
    /\ Sequential

----------------------------------------------------------------------------
(* Calls of the Backend *)

Get(k) ==
    /\ last' = [op |-> "get", key |-> k, ret |-> get(map, k)]
    /\ UNCHANGED <<map, hmap, set_map, history, req, callers, locks, shard>>

\* a map without the key
Remove(m, k) == [x \in (DOMAIN m) \ {k} |-> m[x]]

\* a faulty set, for which a key names one value of any kind: it drops the hash and
\* the set stored under the key
Set_one_keyspace(k, v) ==
    /\ Len(history) < MaxOps
    /\ map' = set(map, k, v)
    /\ hmap' = Remove(hmap, k)
    /\ set_map' = Remove(set_map, k)
    /\ history' = Append(history, [op |-> "set", key |-> k, value |-> v])
    /\ last' = [op |-> "set", key |-> k, value |-> v]
    /\ UNCHANGED <<req, callers, locks, shard>>

Set(k, v) ==
    /\ Len(history) < MaxOps
    /\ map' = set(map, k, v)
    /\ history' = Append(history, [op |-> "set", key |-> k, value |-> v])
    /\ last' = [op |-> "set", key |-> k, value |-> v]
    /\ UNCHANGED <<hmap, set_map, req, callers, locks, shard>>

HGet(k, f) ==
    /\ last' = [op |-> "hget", key |-> k, field |-> f, ret |-> hget(hmap, k, f)]
    /\ UNCHANGED <<map, hmap, set_map, history, req, callers, locks, shard>>

HMGet(k, fs) ==
    /\ last' = [op |-> "hmget", key |-> k, fields |-> fs, ret |-> hmget(hmap, k, fs)]
    /\ UNCHANGED <<map, hmap, set_map, history, req, callers, locks, shard>>

HSet(k, f, v) ==
    /\ Len(history) < MaxOps
    /\ hmap' = hset(hmap, k, f, v)
    /\ history' = Append(history, [op |-> "hset", key |-> k, field |-> f, value |-> v])
    /\ last' = [op |-> "hset", key |-> k, field |-> f, value |-> v]
    /\ UNCHANGED <<map, set_map, req, callers, locks, shard>>

HGetAll(k) ==
    /\ last' = [op |-> "hgetall", key |-> k, ret |-> hgetall(hmap, k)]
    /\ UNCHANGED <<map, hmap, set_map, history, req, callers, locks, shard>>

----------------------------------------------------------------------------
(* Executing the commands of src/src/cmd/echo.rs and src/src/cmd/set.rs *)

\* the decimal digits of n >= 0, as bytes
RECURSIVE to_decimal(_)
to_decimal(n) ==
    IF n < 10 THEN <<48 + n>> ELSE to_decimal(n \div 10) \o <<48 + (n % 10)>>

\* "(integer) "
IntegerPrefix == <<40, 105, 110, 116, 101, 103, 101, 114, 41, 32>>

\* format!("(integer) {}", ret)
format_integer(ret) ==
    IntegerPrefix \o (IF ret < 0 THEN <<45>> \o to_decimal(0 - ret) ELSE to_decimal(ret))

\* the order of String: byte by byte, a proper prefix first
RECURSIVE string_le(_, _)
string_le(a, b) ==
    IF a = <<>> THEN TRUE
    ELSE IF b = <<>> THEN FALSE
    ELSE IF a[1] < b[1] THEN TRUE
    ELSE IF a[1] > b[1] THEN FALSE
    ELSE string_le(Tail(a), Tail(b))

RECURSIVE sort_insert(_, _)
sort_insert(sorted, x) ==
    IF sorted = <<>> THEN <<x>>
    ELSE IF string_le(x, sorted[1]) THEN <<x>> \o sorted
    ELSE <<sorted[1]>> \o sort_insert(Tail(sorted), x)

\* a faulty sort, which leaves the order as it is
sort_keeps_order(data) ==
    data

\* Vec<String>::sort()
RECURSIVE sort(_)
sort(data) ==
    IF data = <<>> THEN <<>>
    ELSE sort_insert(sort(SubSeq(data, 1, Len(data) - 1)), data[Len(data)])

\* the orders in which set.iter() may yield the members of a DashSet
IterOrders(S) ==
    {o \in [1..Cardinality(S) -> S] : \A i, j \in 1..Cardinality(S) : i # j => o[i] # o[j]}

Echo_execute(self) ==
    BulkString(self.value)

SAdd_execute(s, self) ==
    LET r == sadd(s, self.key, self.values)
    IN  [set_map |-> r.set_map, ret |-> r.ret,
         reply |-> BulkString(format_integer(r.ret))]

\* iter: the order in which set.iter() yields the members of the snapshot
SMembers_execute(s, self, iter) ==
    LET snapshot == smembers(s, self.key)
    IN  IF snapshot.some
        THEN LET data == IF self.sort THEN sort(iter) ELSE iter
             IN  RespArray([i \in 1..Len(data) |-> BulkString(data[i])])
        ELSE RespArray(<<>>)

SIsMember_execute(s, self) ==
    LET ret == sismember(s, self.key, self.value)
    IN  [ret |-> ret, reply |-> BulkString(format_integer(ret))]

ExecuteEcho(cmd) ==
    /\ last' = [op |-> "echo", cmd |-> cmd, reply |-> Echo_execute(cmd)]
    /\ UNCHANGED <<map, hmap, set_map, history, req, callers, locks, shard>>

ExecuteSAdd(cmd) ==
    /\ Len(history) < MaxOps
    /\ LET r == SAdd_execute(set_map, cmd)
       IN  /\ set_map' = r.set_map
           /\ history' = Append(history, [op |-> "sadd", key |-> cmd.key,
                                          values |-> cmd.values, ret |-> r.ret])
           /\ last' = [op |-> "sadd", cmd |-> cmd, ret |-> r.ret, reply |-> r.reply]
    /\ UNCHANGED <<map, hmap, req, callers, locks, shard>>

ExecuteSMembers(cmd) ==
    /\ \E iter \in IterOrders(IF cmd.key \in DOMAIN set_map THEN set_map[cmd.key] ELSE {}) :
          last' = [op |-> "smembers", cmd |-> cmd,
                   reply |-> SMembers_execute(set_map, cmd, iter)]
    /\ UNCHANGED <<map, hmap, set_map, history, req, callers, locks, shard>>

\* a faulty SISMEMBER, which reads through entry(key).or_default() and so creates
\* the set of a key that has none
ExecuteSIsMember_creates_key(cmd) ==
    /\ LET r == SIsMember_execute(set_map, cmd)
       IN  last' = [op |-> "sismember", cmd |-> cmd, ret |-> r.ret, reply |-> r.reply]
    /\ set_map' = IF cmd.key \in DOMAIN set_map THEN set_map
                  ELSE Put(set_map, cmd.key, {})
    /\ UNCHANGED <<map, hmap, history, req, callers, locks, shard>>

ExecuteSIsMember(cmd) ==
    /\ LET r == SIsMember_execute(set_map, cmd)
       IN  last' = [op |-> "sismember", cmd |-> cmd, ret |-> r.ret, reply |-> r.reply]
    /\ UNCHANGED <<map, hmap, set_map, history, req, callers, locks, shard>>

----------------------------------------------------------------------------
(* The store on its own: one specification for each namespace *)

FieldLists == SeqsUpTo(Fields, MaxLen)

MemberLists == SeqsUpTo(Members, MaxLen)

EchoCmds == [value : Members]

SAddCmds == [key : Keys, values : MemberLists]

SMembersCmds == [key : Keys, sort : BOOLEAN]

SIsMemberCmds == [key : Keys, value : Members]

NextScalar ==
    \/ \E k \in Keys : Get(k)
    \/ \E k \in Keys, v \in Values : Set(k, v)

SpecScalar == Init /\ [][NextScalar]_vars

NextHash ==
    \/ \E k \in Keys, f \in Fields : HGet(k, f)
    \/ \E k \in Keys, fs \in FieldLists : HMGet(k, fs)
    \/ \E k \in Keys, f \in Fields, v \in Values : HSet(k, f, v)
    \/ \E k \in Keys : HGetAll(k)

SpecHash == Init /\ [][NextHash]_vars

NextSet ==
    \/ \E cmd \in EchoCmds : ExecuteEcho(cmd)
    \/ \E cmd \in SAddCmds : ExecuteSAdd(cmd)
    \/ \E cmd \in SMembersCmds : ExecuteSMembers(cmd)
    \/ \E cmd \in SIsMemberCmds : ExecuteSIsMember(cmd)

SpecSet == Init /\ [][NextSet]_vars

----------------------------------------------------------------------------
(* Converting a request into a command: TryFrom<RespArray> *)

Ok(v) == [ok |-> TRUE, value |-> v]

Err(kind, msg) == [ok |-> FALSE, err |-> [kind |-> kind, msg |-> msg]]

\* b is a continuation byte within lo..hi
InRange(b, lo, hi) == lo <= b /\ b <= hi

\* the well-formed UTF-8 byte sequences (the table of the Unicode standard)
RECURSIVE utf8_valid(_)
utf8_valid(b) ==
    IF b = <<>> THEN TRUE
    ELSE LET n == Len(b)
             rest(k) == SubSeq(b, k + 1, n)
             cont(i) == i <= n /\ InRange(b[i], 128, 191)
         IN  IF b[1] < 128 THEN utf8_valid(rest(1))
             ELSE IF InRange(b[1], 194, 223) THEN cont(2) /\ utf8_valid(rest(2))
             ELSE IF b[1] = 224
                  THEN n >= 2 /\ InRange(b[2], 160, 191) /\ cont(3) /\ utf8_valid(rest(3))
             ELSE IF InRange(b[1], 225, 236) \/ InRange(b[1], 238, 239)
                  THEN cont(2) /\ cont(3) /\ utf8_valid(rest(3))
             ELSE IF b[1] = 237
                  THEN n >= 2 /\ InRange(b[2], 128, 159) /\ cont(3) /\ utf8_valid(rest(3))
             ELSE IF b[1] = 240
                  THEN n >= 2 /\ InRange(b[2], 144, 191) /\ cont(3) /\ cont(4)
                       /\ utf8_valid(rest(4))
             ELSE IF InRange(b[1], 241, 243)
                  THEN cont(2) /\ cont(3) /\ cont(4) /\ utf8_valid(rest(4))
             ELSE IF b[1] = 244
                  THEN n >= 2 /\ InRange(b[2], 128, 143) /\ cont(3) /\ cont(4)
                       /\ utf8_valid(rest(4))
             ELSE FALSE

\* a faulty conversion to text, which folds upper case to lower case
from_utf8_folds_case(bytes) ==
    IF utf8_valid(bytes)
    THEN Ok([i \in 1..Len(bytes) |->
               IF InRange(bytes[i], 65, 90) THEN bytes[i] + 32 ELSE bytes[i]])
    ELSE Err("InvalidText", "invalid utf-8 sequence")

\* String::from_utf8(bytes)?: the bytes as a String, or the text error
from_utf8(bytes) ==
    IF utf8_valid(bytes) THEN Ok(bytes) ELSE Err("InvalidText", "invalid utf-8 sequence")

to_ascii_lowercase(b) ==
    [i \in 1..Len(b) |-> IF InRange(b[i], 65, 90) THEN b[i] + 32 ELSE b[i]]

\* validate(request, expected names, minimum number of trailing arguments)
validate_command(value, names, n_args) ==
    IF \/ Len(value) = 0
       \/ value[1].kind # "BulkString"
       \/ to_ascii_lowercase(value[1].bytes) \notin names
    THEN Err("WrongCommand", "unexpected command name")
    ELSE IF Len(value) - 1 < n_args
         THEN Err("WrongArgCount", "too few arguments")
         ELSE Ok(<<>>)

\* extract_args(request, number of leading elements to drop)
extract_args(value, start) ==
    IF Len(value) < start
    THEN Err("WrongArgCount", "request shorter than the skipped prefix")
    ELSE Ok(SubSeq(value, start + 1, Len(value)))

NameEcho == <<101, 99, 104, 111>>

NameSAdd == <<115, 97, 100, 100>>

NameSMembers == <<115, 109, 101, 109, 98, 101, 114, 115>>

NameSIsMember == <<115, 105, 115, 109, 101, 109, 98, 101, 114>>

Echo_try_from(value) ==
    LET checked == validate_command(value, {NameEcho}, 1)
        args    == extract_args(value, 1)
    IN  IF ~checked.ok THEN checked
        ELSE IF ~args.ok THEN args
        ELSE IF Len(args.value) >= 1 /\ args.value[1].kind = "BulkString"
             THEN LET text == from_utf8(args.value[1].bytes)
                  IN  IF text.ok THEN Ok([value |-> text.value]) ELSE text
             ELSE Err("InvalidArgument", "Invalid key")

\* .map(|f| ..).collect::<Result<Vec<String>, CommandError>>(): the strings, or the
\* error of the first frame that has one
RECURSIVE collect_values(_, _, _)
collect_values(frames, i, acc) ==
    IF i > Len(frames) THEN Ok(acc)
    ELSE IF frames[i].kind = "BulkString"
         THEN LET text == from_utf8(frames[i].bytes)
              IN  IF text.ok THEN collect_values(frames, i + 1, Append(acc, text.value))
                  ELSE text
         ELSE Err("InvalidArgument", "Invalid field")

\* a faulty conversion, which accepts a SADD with a key and no member
SAdd_try_from_min_one(value) ==
    IF Len(value) < 2
    THEN Err("InvalidArgument", "sadd command requires at least 2 parameters")
    ELSE LET args == extract_args(value, 1)
         IN  IF ~args.ok THEN args
             ELSE IF Len(args.value) >= 1 /\ args.value[1].kind = "BulkString"
                  THEN LET values == collect_values(Tail(args.value), 1, <<>>)
                           key    == from_utf8(args.value[1].bytes)
                       IN  IF ~values.ok THEN values
                           ELSE IF ~key.ok THEN key
                           ELSE Ok([key |-> key.value, values |-> values.value])
                  ELSE Err("InvalidArgument", "Invalid key")

SAdd_try_from(value) ==
    IF Len(value) < 3
    THEN Err("InvalidArgument", "sadd command requires at least 2 parameters")
    ELSE LET args == extract_args(value, 1)
         IN  IF ~args.ok THEN args
             ELSE IF Len(args.value) >= 1 /\ args.value[1].kind = "BulkString"
                  THEN LET values == collect_values(Tail(args.value), 1, <<>>)
                           key    == from_utf8(args.value[1].bytes)
                       IN  IF ~values.ok THEN values
                           ELSE IF ~key.ok THEN key
                           ELSE Ok([key |-> key.value, values |-> values.value])
                  ELSE Err("InvalidArgument", "Invalid key")

SMembers_try_from(value) ==
    LET checked == validate_command(value, {NameSMembers}, 1)
        args    == extract_args(value, 1)
    IN  IF ~checked.ok THEN checked
        ELSE IF ~args.ok THEN args
        ELSE IF Len(args.value) >= 1 /\ args.value[1].kind = "BulkString"
             THEN LET key == from_utf8(args.value[1].bytes)
                  IN  IF key.ok THEN Ok([key |-> key.value, sort |-> FALSE]) ELSE key
             ELSE Err("InvalidArgument", "Invalid key")

SIsMember_try_from(value) ==
    LET checked == validate_command(value, {NameSIsMember}, 2)
        args    == extract_args(value, 1)
    IN  IF ~checked.ok THEN checked
        ELSE IF ~args.ok THEN args
        ELSE IF /\ Len(args.value) >= 2
                /\ args.value[1].kind = "BulkString"
                /\ args.value[2].kind = "BulkString"
             THEN LET key == from_utf8(args.value[1].bytes)
                      val == from_utf8(args.value[2].bytes)
                  IN  IF ~key.ok THEN key
                      ELSE IF ~val.ok THEN val
                      ELSE Ok([key |-> key.value, value |-> val.value])
             ELSE Err("InvalidArgument", "Invalid key or value")

----------------------------------------------------------------------------
(* Requests: a leading frame and up to MaxArgs trailing frames *)

\* "echo", "Echo", "sadd", "SADD", "smembers", "sismember", "get", and a frame that
\* is no bulk string
NameFrames ==
    {BulkString(NameEcho), BulkString(<<69, 99, 104, 111>>),
     BulkString(NameSAdd), BulkString(<<83, 65, 68, 68>>),
     BulkString(NameSMembers), BulkString(NameSIsMember),
     BulkString(<<103, 101, 116>>), NullFrame}

\* "a", "b", "B", bytes that are no text, and a frame that is no bulk string
ArgFrames ==
    {BulkString(StrA), BulkString(StrB), BulkString(<<66>>), BulkString(BadBytes),
     NullFrame}

Requests ==
    {<<>>} \cup {<<n>> \o a : n \in NameFrames, a \in SeqsUpTo(ArgFrames, MaxArgs)}

\* a request arrives at a store that is new, or that holds one set
InitParse ==
    /\ req \in Requests
    /\ map = EmptyMap
    /\ hmap = EmptyMap
    /\ \E preload \in BOOLEAN :
          LET r == sadd(EmptyMap, StrA, <<StrB>>)
          IN  /\ set_map = IF preload THEN r.set_map ELSE EmptyMap
              /\ history = IF preload
                           THEN <<[op |-> "sadd", key |-> StrA, values |-> <<StrB>>,
                                   ret |-> r.ret]>>
                           ELSE <<>>
    /\ last = [op |-> "new"]
    /\ Sequential

ConvertEcho ==
    /\ last' = [op |-> "try_from", target |-> "Echo", result |-> Echo_try_from(req)]
    /\ UNCHANGED <<map, hmap, set_map, history, req, callers, locks, shard>>

ConvertSAdd ==
    /\ last' = [op |-> "try_from", target |-> "SAdd", result |-> SAdd_try_from(req)]
    /\ UNCHANGED <<map, hmap, set_map, history, req, callers, locks, shard>>

ConvertSMembers ==
    /\ last' = [op |-> "try_from", target |-> "SMembers",
                result |-> SMembers_try_from(req)]
    /\ UNCHANGED <<map, hmap, set_map, history, req, callers, locks, shard>>

ConvertSIsMember ==
    /\ last' = [op |-> "try_from", target |-> "SIsMember",
                result |-> SIsMember_try_from(req)]
    /\ UNCHANGED <<map, hmap, set_map, history, req, callers, locks, shard>>

\* the command a conversion returned is executed
Dispatch ==
    /\ last.op = "try_from"
    /\ last.result.ok
    /\ \/ last.target = "Echo" /\ ExecuteEcho(last.result.value)
       \/ last.target = "SAdd" /\ ExecuteSAdd(last.result.value)
       \/ last.target = "SMembers" /\ ExecuteSMembers(last.result.value)
       \/ last.target = "SIsMember" /\ ExecuteSIsMember(last.result.value)

NextParse ==
    \/ ConvertEcho
    \/ ConvertSAdd
    \/ ConvertSMembers
    \/ ConvertSIsMember
    \/ Dispatch

SpecParse == InitParse /\ [][NextParse]_vars

----------------------------------------------------------------------------
(* The three namespaces together, with lists of at most one element *)

ShortLists(S) == {<<>>} \cup {<<x>> : x \in S}

\* the values written when the namespaces are taken together
StoreValues == {BulkString(<<118>>), NullFrame}

NextStore ==
    \/ \E k \in Keys : Get(k)
    \/ \E k \in Keys, v \in StoreValues : Set(k, v)
    \/ \E k \in Keys, f \in Fields : HGet(k, f)
    \/ \E k \in Keys, fs \in ShortLists(Fields) : HMGet(k, fs)
    \/ \E k \in Keys, f \in Fields, v \in StoreValues : HSet(k, f, v)
    \/ \E k \in Keys : HGetAll(k)
    \/ \E cmd \in EchoCmds : ExecuteEcho(cmd)
    \/ \E cmd \in [key : Keys, values : ShortLists(Members)] : ExecuteSAdd(cmd)
    \/ \E cmd \in SMembersCmds : ExecuteSMembers(cmd)
    \/ \E cmd \in SIsMemberCmds : ExecuteSIsMember(cmd)

SpecStore == Init /\ [][NextStore]_vars

----------------------------------------------------------------------------
(* Concurrent callers of one Backend: the locks of the DashMaps *)

WriteOps == {"hset", "sadd"}
SnapshotOps == {"hgetall", "smembers"}
ScalarOps == {"get", "set"}

\* the map of the Backend a call works on
Namespace(op) ==
    CASE op \in {"hset", "hget", "hmget", "hgetall"} -> "hmap"
      [] op \in {"sadd", "smembers", "sismember"} -> "set_map"
      [] op \in ScalarOps -> "map"

\* a faulty store whose writers take the shard's lock shared, as the readers do
LockMode_all_shared(op) == "read"

\* entry(key) locks the key's shard exclusively, get(key) shared
LockMode(op) == IF op \in WriteOps THEN "write" ELSE "read"

\* insert locks the item's shard of the inner container exclusively; get, contains
\* and clone lock it shared
InnerMode(op) == IF op \in WriteOps THEN "write" ELSE "read"

\* the lock of the shard of the outer map the call's key hashes to
OuterLock(call) == <<"outer", Namespace(call.op), <<>>, shard.outer[call.key]>>

\* a faulty inner step that goes through the outer map again and locks the key's
\* shard a second time
InnerLock_through_outer(call, s) == OuterLock(call)

\* the lock of shard s of the container stored at the call's key
InnerLock(call, s) == <<"inner", Namespace(call.op), call.key, s>>

Holders(lock) == {h \in locks : h.lock = lock}

\* a read-write lock: a writer needs it free, a reader needs it free of writers
CanLock(lock, mode) ==
    IF mode = "write" THEN Holders(lock) = {}
    ELSE \A h \in Holders(lock) : h.mode = "read"

Held(c, lock, mode) == [by |-> c, lock |-> lock, mode |-> mode]

\* a faulty hgetall / smembers that returns with the Ref of the entry still alive
ReleaseOuter_snapshot_keeps_ref(c, call) ==
    IF call.op \in SnapshotOps THEN locks
    ELSE locks \ {Held(c, OuterLock(call), LockMode(call.op))}

\* the Ref / RefMut of the entry is dropped when the function returns
ReleaseOuter(c, call) == locks \ {Held(c, OuterLock(call), LockMode(call.op))}

\* a faulty entry(key).or_default() that stores a new container in every call
entry_or_default_fresh(m, k, empty) == Put(m, k, empty)

\* entry(key).or_default(): the container at the key, created empty if absent
entry_or_default(m, k, empty) == IF k \in DOMAIN m THEN m ELSE Put(m, k, empty)

\* a faulty DashSet::insert that reports every member as new
DashSet_insert_reports_new(members, v) == [set |-> members \cup {v}, fresh |-> TRUE]

\* DashSet::insert: true when the member was not in the set
DashSet_insert(members, v) == [set |-> members \cup {v}, fresh |-> v \notin members]

\* the steps a call makes inside the container: one per member (sadd) or field
\* (hmget), one for hset, hget and sismember, one per shard for a clone
InnerSteps(call) ==
    CASE call.op \in {"sadd", "hmget"} -> Len(call.items)
      [] call.op \in {"hset", "hget", "sismember"} -> 1
      [] call.op \in SnapshotOps -> Cardinality(Shards)

\* the shard of the container the i-th step locks: a clone goes through the shards
\* in order
InnerShard(call, i) ==
    IF call.op \in SnapshotOps THEN i ELSE shard.inner[call.items[i]]

\* what a read returns for a key the map does not hold
AbsentResult(call) ==
    CASE call.op = "hmget" -> Result("options", [i \in 1..Len(call.items) |-> None])
      [] call.op = "sismember" -> Result("int", 0)
      [] call.op = "hget" -> Result("option", None)
      [] call.op = "hgetall" -> Result("hash snapshot", None)
      [] call.op = "smembers" -> Result("set snapshot", None)

\* the result a call starts from
StartResult(call) ==
    CASE call.op = "hmget" -> Result("options", <<>>)
      [] call.op = "hgetall" -> Result("hash", EmptyMap)
      [] call.op = "smembers" -> Result("set", {})
      [] call.op = "hget" -> Result("option", None)
      [] call.op \in {"sadd", "sismember"} -> Result("int", 0)
      [] call.op = "hset" -> Result("unit", 0)

\* what the call returns, from what its steps collected
FinalResult(call, acc) ==
    CASE call.op = "hgetall" -> Result("hash snapshot", Some(acc.val))
      [] call.op = "smembers" -> Result("set snapshot", Some(acc.val))
      [] OTHER -> acc

\* the part of a hash that shard s of the clone receives
clone_shard(acc, h, s) ==
    LET fs == {f \in DOMAIN h : shard.inner[f] = s}
    IN  [f \in (DOMAIN acc) \cup fs |-> IF f \in DOMAIN acc THEN acc[f] ELSE h[f]]

Call(op, k, items, v) == [op |-> op, key |-> k, items |-> items, value |-> v]

\* a caller calls the Backend
Invoke(c, call) ==
    /\ callers[c].pc = "idle"
    /\ callers' = [callers EXCEPT ![c] = [@ EXCEPT !.pc = "invoked", !.call = call]]
    /\ UNCHANGED <<map, hmap, set_map, history, req, last, locks, shard>>

\* get and set lock the shard of the scalar map inside DashMap::get / insert only
ScalarOp(c) ==
    LET call == callers[c].call
    IN  /\ callers[c].pc = "invoked"
        /\ call.op \in ScalarOps
        /\ IF call.op = "set"
           THEN /\ map' = set(map, call.key, call.value)
                /\ history' = Append(history, [op |-> "set", key |-> call.key,
                                               value |-> call.value])
                /\ callers' = [callers EXCEPT ![c] = [@ EXCEPT !.pc = "done",
                                                                !.ret = Result("unit", 0)]]
           ELSE /\ callers' = [callers EXCEPT ![c] =
                                 [@ EXCEPT !.pc = "done",
                                           !.ret = Result("option", get(map, call.key))]]
                /\ UNCHANGED <<map, history>>
        /\ last' = [op |-> "return", caller |-> c]
        /\ UNCHANGED <<hmap, set_map, req, locks, shard>>

\* entry(key).or_default() of hset and sadd, get(key) of the reads: the lock of the
\* key's shard; a read that finds no key drops the lock at once and returns
AcquireOuter(c) ==
    LET call == callers[c].call
        lock == OuterLock(call)
        mode == LockMode(call.op)
    IN  /\ callers[c].pc = "invoked"
        /\ call.op \notin ScalarOps
        /\ CanLock(lock, mode)
        /\ IF call.op \in WriteOps
           THEN /\ hmap' = IF call.op = "hset"
                           THEN entry_or_default(hmap, call.key, EmptyMap) ELSE hmap
                /\ set_map' = IF call.op = "sadd"
                              THEN entry_or_default(set_map, call.key, {}) ELSE set_map
                /\ locks' = locks \cup {Held(c, lock, mode)}
                /\ callers' = [callers EXCEPT ![c] =
                                 [@ EXCEPT !.pc = "outer", !.i = 1,
                                           !.acc = StartResult(call),
                                           !.before = IF call.key \in DOMAIN set_map
                                                       THEN set_map[call.key]
                                                       ELSE {}]]
                /\ UNCHANGED last
           ELSE /\ UNCHANGED <<hmap, set_map>>
                /\ IF call.key \in DOMAIN (IF Namespace(call.op) = "hmap"
                                           THEN hmap ELSE set_map)
                   THEN /\ locks' = locks \cup {Held(c, lock, mode)}
                        /\ callers' = [callers EXCEPT ![c] =
                                         [@ EXCEPT !.pc = "outer", !.i = 1,
                                                   !.acc = StartResult(call)]]
                        /\ UNCHANGED last
                   ELSE /\ callers' = [callers EXCEPT ![c] =
                                         [@ EXCEPT !.pc = "done",
                                                   !.ret = AbsentResult(call)]]
                        /\ last' = [op |-> "return", caller |-> c]
                        /\ UNCHANGED locks
        /\ UNCHANGED <<map, history, req, shard>>

\* the lock of a shard of the container, taken while the key's shard is held
AcquireInner(c) ==
    LET call == callers[c].call
        lock == InnerLock(call, InnerShard(call, callers[c].i))
    IN  /\ callers[c].pc = "outer"
        /\ callers[c].i <= InnerSteps(call)
        /\ CanLock(lock, InnerMode(call.op))
        /\ locks' = locks \cup {Held(c, lock, InnerMode(call.op))}
        /\ callers' = [callers EXCEPT ![c] = [@ EXCEPT !.pc = "inner"]]
        /\ UNCHANGED <<map, hmap, set_map, history, req, last, shard>>

\* the insert, get, contains or shard copy under the container's lock, which is
\* released with it
InnerOp(c) ==
    LET call == callers[c].call
        i == callers[c].i
        acc == callers[c].acc.val
        lock == InnerLock(call, InnerShard(call, i))
        r == DashSet_insert(set_map[call.key], call.items[i])
    IN  /\ callers[c].pc = "inner"
        /\ locks' = locks \ {Held(c, lock, InnerMode(call.op))}
        /\ hmap' = IF call.op = "hset"
                   THEN Put(hmap, call.key, Put(hmap[call.key], call.items[1], call.value))
                   ELSE hmap
        /\ set_map' = IF call.op = "sadd" THEN Put(set_map, call.key, r.set) ELSE set_map
        /\ callers' = [callers EXCEPT ![c] = [@ EXCEPT
              !.pc = "outer",
              !.i = i + 1,
              !.acc.val =
                      CASE call.op = "sadd" -> acc + (IF r.fresh THEN 1 ELSE 0)
                        [] call.op = "hset" -> acc
                        [] call.op = "hget" -> hget(hmap, call.key, call.items[1])
                        [] call.op = "hmget" ->
                               Append(acc, hget(hmap, call.key, call.items[i]))
                        [] call.op = "sismember" ->
                               sismember(set_map, call.key, call.items[1])
                        [] call.op = "hgetall" -> clone_shard(acc, hmap[call.key], i)
                        [] call.op = "smembers" ->
                               acc \cup {m \in set_map[call.key] : shard.inner[m] = i}]]
        /\ UNCHANGED <<map, history, req, last, shard>>

\* the function returns: the Ref / RefMut of the entry goes out of scope
Return(c) ==
    LET call == callers[c].call
    IN  /\ callers[c].pc = "outer"
        /\ callers[c].i > InnerSteps(call)
        /\ locks' = ReleaseOuter(c, call)
        /\ callers' = [callers EXCEPT ![c] =
                         [@ EXCEPT !.pc = "done",
                                   !.ret = FinalResult(call, callers[c].acc)]]
        /\ history' =
              CASE call.op = "sadd" ->
                       Append(history, [op |-> "sadd", key |-> call.key,
                                        values |-> call.items,
                                        ret |-> callers[c].acc.val])
                [] call.op = "hset" ->
                       Append(history, [op |-> "hset", key |-> call.key,
                                        field |-> call.items[1], value |-> call.value])
                [] OTHER -> history
        /\ last' = [op |-> "return", caller |-> c]
        /\ UNCHANGED <<map, hmap, set_map, req, shard>>

\* the calls the callers choose from
ValueV == BulkString(<<118>>)
ValueW == BulkString(<<119>>)

ConcCalls ==
    {Call("hset", StrA, <<StrA>>, ValueW), Call("hset", StrA, <<StrB>>, ValueV),
     Call("hset", StrB, <<StrA>>, ValueV),
     Call("sadd", StrA, <<StrAB>>, NullFrame), Call("sadd", StrA, <<StrB>>, NullFrame),
     Call("sadd", StrA, <<StrAB, StrB>>, NullFrame),
     Call("sadd", StrB, <<StrB>>, NullFrame),
     Call("hget", StrA, <<StrA>>, NullFrame),
     Call("hmget", StrA, <<StrA, StrB>>, NullFrame),
     Call("hgetall", StrA, <<>>, NullFrame),
     Call("smembers", StrA, <<>>, NullFrame),
     Call("sismember", StrA, <<StrB>>, NullFrame),
     Call("get", StrA, <<>>, NullFrame), Call("set", StrA, <<>>, ValueV)}

\* a new Backend, or one that holds a hash and a set at one key; the hashers of the
\* DashMaps are seeded at random, so keys and items fall into any shards (the shards
\* of the outer maps are alike, so the first key's shard is called 1)
InitConc ==
    /\ map = EmptyMap
    /\ \E preload \in BOOLEAN :
          LET r == sadd(EmptyMap, StrA, <<StrB>>)
          IN  /\ hmap = IF preload THEN hset(EmptyMap, StrA, StrA, ValueV) ELSE EmptyMap
              /\ set_map = IF preload THEN r.set_map ELSE EmptyMap
              /\ history = IF preload
                           THEN <<[op |-> "hset", key |-> StrA, field |-> StrA,
                                   value |-> ValueV],
                                  [op |-> "sadd", key |-> StrA, values |-> <<StrB>>,
                                   ret |-> r.ret]>>
                           ELSE <<>>
    /\ req = <<>>
    /\ last = [op |-> "new"]
    /\ callers = [c \in Callers |-> IdleCaller]
    /\ locks = {}
    /\ shard \in [outer : [Keys -> Shards], inner : [Items -> Shards]]
    /\ shard.outer[StrA] = 1

\* the steps of a call once it is made
Step(c) == ScalarOp(c) \/ AcquireOuter(c) \/ AcquireInner(c) \/ InnerOp(c) \/ Return(c)

NextConc ==
    \/ \E c \in Callers, call \in ConcCalls : Invoke(c, call)
    \/ \E c \in Callers : ScalarOp(c)
    \/ \E c \in Callers : AcquireOuter(c)
    \/ \E c \in Callers : AcquireInner(c)
    \/ \E c \in Callers : InnerOp(c)
    \/ \E c \in Callers : Return(c)

SpecConc == InitConc /\ [][NextConc]_vars

\* the threads are scheduled by the operating system and the locks hand over to a
\* waiting thread: a call that can take its next step takes it
SpecConcFair == SpecConc /\ \A c \in Callers : WF_vars(Step(c))

----------------------------------------------------------------------------
(* Every call *)

Next ==
    \/ NextScalar
    \/ NextHash
    \/ NextSet

Spec == Init /\ [][Next]_vars

----------------------------------------------------------------------------
(* What the history of writes says the store holds *)

Max(S) == CHOOSE x \in S : \A y \in S : y <= x

\* the writes of one kind to key k, as indexes of the history
WritesTo(op, k) ==
    {i \in 1..Len(history) : history[i].op = op /\ history[i].key = k}

MostRecentSet(k) ==
    IF WritesTo("set", k) = {} THEN None
    ELSE Some(history[Max(WritesTo("set", k))].value)

HSetsTo(k, f) == {i \in WritesTo("hset", k) : history[i].field = f}

MostRecentHSet(k, f) ==
    IF HSetsTo(k, f) = {} THEN None ELSE Some(history[Max(HSetsTo(k, f))].value)

EverAdded(k, m) ==
    \E i \in WritesTo("sadd", k) : m \in Range(history[i].values)

SetAt(s, k) == IF k \in DOMAIN s THEN s[k] ELSE {}

\* the number a sequence of decimal digits denotes; -1 when it is no such sequence
RECURSIVE DigitsValue(_)
DigitsValue(d) ==
    IF d = <<>> \/ \E i \in 1..Len(d) : d[i] < 48 \/ d[i] > 57 THEN 0 - 1
    ELSE IF Len(d) = 1 THEN d[1] - 48
    ELSE 10 * DigitsValue(SubSeq(d, 1, Len(d) - 1)) + (d[Len(d)] - 48)

\* the reply is the bulk string "(integer) n"
CarriesInteger(reply, n) ==
    /\ reply.kind = "BulkString"
    /\ Len(reply.bytes) > Len(IntegerPrefix)
    /\ SubSeq(reply.bytes, 1, Len(IntegerPrefix)) = IntegerPrefix
    /\ DigitsValue(SubSeq(reply.bytes, Len(IntegerPrefix) + 1, Len(reply.bytes))) = n

\* a comes before b in lexicographic order
LexLess(a, b) ==
    \E p \in 1..Len(b) :
        /\ p - 1 <= Len(a)
        /\ \A q \in 1..(p - 1) : a[q] = b[q]
        /\ (p > Len(a) \/ a[p] < b[p])

----------------------------------------------------------------------------
(* The scalar namespace *)

\* C1: get(k) is absent while no set(k, _) was executed, and otherwise returns the
\* value of the most recent set(k, v), whatever was set on other keys
C1_GetReturnsMostRecentSet ==
    /\ \A k \in Keys : get(map, k) = MostRecentSet(k)
    /\ last.op = "get" => last.ret = MostRecentSet(last.key)

\* a get of a key that was set twice, to two different values: the second wins
C1_Witness ==
    /\ last.op = "get"
    /\ Cardinality(WritesTo("set", last.key)) = 2
    /\ history[1].value # history[2].value
    /\ last.ret = Some(history[2].value)

----------------------------------------------------------------------------
(* The set namespace *)

\* C2: sadd(k, members) returns the number of distinct members of the list that were
\* not in the set at k before, creates the set at k, leaves it the old set united
\* with the members, and the SADD reply carries that number
C2_SAddCountsNewMembers ==
    [][(last'.op = "sadd" /\ Len(history') = Len(history) + 1) =>
         LET k   == last'.cmd.key
             new == Range(last'.cmd.values) \ SetAt(set_map, k)
         IN  /\ last'.ret = Cardinality(new)
             /\ history'[Len(history')].ret = Cardinality(new)
             /\ k \in DOMAIN set_map'
             /\ set_map'[k] = SetAt(set_map, k) \cup Range(last'.cmd.values)
             /\ CarriesInteger(last'.reply, Cardinality(new))]_vars

\* a list that repeats a member counted once, then a list with that member and a
\* new one counted once
C2_Witness ==
    /\ last.op = "sadd"
    /\ Len(history) = 2
    /\ history[1].key = history[2].key
    /\ history[1].values = <<StrB, StrB>>
    /\ history[1].ret = 1
    /\ history[2].values = <<StrB, StrAB>>
    /\ history[2].ret = 1
    /\ last.ret = 1
    /\ set_map[last.cmd.key] = {StrB, StrAB}

\* the most recent write to the set at k
PreviousSAdd(k) == history[Max(WritesTo("sadd", k))]

\* C3: an sadd(k, members) that follows an sadd(k, members) with the same list, with
\* no write to k in between, returns 0 and leaves the set at k unchanged; the first
\* of the two, made on a key never written, returned the number of distinct members
C3_SAddTwiceIsIdempotent ==
    [][(/\ last'.op = "sadd"
        /\ Len(history') = Len(history) + 1
        /\ WritesTo("sadd", last'.cmd.key) # {}
        /\ PreviousSAdd(last'.cmd.key).values = last'.cmd.values) =>
         LET k == last'.cmd.key
         IN  /\ last'.ret = 0
             /\ set_map'[k] = set_map[k]
             /\ Cardinality(WritesTo("sadd", k)) = 1 =>
                    PreviousSAdd(k).ret = Cardinality(Range(last'.cmd.values))]_vars

\* the same list of two members added twice to a new key: 2, then 0
C3_Witness ==
    /\ last.op = "sadd"
    /\ Len(history) = 2
    /\ history[1].key = history[2].key
    /\ history[1].values = history[2].values
    /\ Cardinality(Range(history[1].values)) = 2
    /\ history[1].ret = 2
    /\ history[2].ret = 0

\* C4: sismember(k, m) / SISMEMBER k m yields 1 exactly when an earlier sadd on the
\* same key k had m in its list, and 0 otherwise (a key never created included)
C4_SIsMemberIffAdded ==
    /\ \A k \in Keys, m \in Members :
          sismember(set_map, k, m) = IF EverAdded(k, m) THEN 1 ELSE 0
    /\ last.op = "sismember" =>
          LET added == EverAdded(last.cmd.key, last.cmd.value)
          IN  /\ last.ret = IF added THEN 1 ELSE 0
              /\ CarriesInteger(last.reply, IF added THEN 1 ELSE 0)

\* SISMEMBER of a member that was added to another key only, on a key that exists
C4_Witness ==
    /\ last.op = "sismember"
    /\ last.ret = 0
    /\ last.cmd.key \in DOMAIN set_map
    /\ set_map[last.cmd.key] # {}
    /\ \E k \in Keys \ {last.cmd.key} : EverAdded(k, last.cmd.value)

\* C7: the SMEMBERS reply is an array with every member of the set at k exactly once
\* and nothing else, empty for an absent key, and in ascending lexicographic order
\* when the sort flag is set
C7_SMembersReply ==
    last.op = "smembers" =>
        LET items == last.reply.items
            k     == last.cmd.key
        IN  /\ last.reply.kind = "Array"
            /\ \A i \in 1..Len(items) : items[i].kind = "BulkString"
            /\ {items[i].bytes : i \in 1..Len(items)} = SetAt(set_map, k)
            /\ Len(items) = Cardinality(SetAt(set_map, k))
            /\ k \notin DOMAIN set_map => items = <<>>
            /\ last.cmd.sort =>
                  \A i \in 1..(Len(items) - 1) :
                      LexLess(items[i].bytes, items[i + 1].bytes)

\* a sorted SMEMBERS of a set whose members were added in descending order
C7_Witness ==
    /\ last.op = "smembers"
    /\ last.cmd.sort
    /\ Len(last.reply.items) = 2
    /\ \E i \in WritesTo("sadd", last.cmd.key) : history[i].values = <<StrB, StrAB>>
    /\ last.reply.items = <<BulkString(StrAB), BulkString(StrB)>>

----------------------------------------------------------------------------
(* The hash namespace *)

\* C5: hmget(k, fields) returns a list as long as fields, whether or not k exists,
\* whose i-th entry is what hget(k, fields[i]) returns in the same state
C5_HMGetMatchesHGet ==
    last.op = "hmget" =>
        /\ Len(last.ret) = Len(last.fields)
        /\ \A i \in 1..Len(last.fields) :
              last.ret[i] = hget(hmap, last.key, last.fields[i])

\* an hmget of two fields on a key that has no hash, while another key has one
C5_Witness ==
    /\ last.op = "hmget"
    /\ last.key \notin DOMAIN hmap
    /\ hmap # EmptyMap
    /\ Len(last.fields) = 2
    /\ last.ret = <<None, None>>

\* C6: hset(k, f, v) creates the hash at k; hget(k, f) returns the value of the most
\* recent hset(k, f, _), and absent when k has no hash or the hash has no field f,
\* so an hset on a field leaves the other fields of the hash as they were
C6_HGetReturnsMostRecentHSet ==
    /\ \A k \in Keys : k \in DOMAIN hmap <=> WritesTo("hset", k) # {}
    /\ \A k \in Keys, f \in Fields : hget(hmap, k, f) = MostRecentHSet(k, f)
    /\ last.op = "hget" => last.ret = MostRecentHSet(last.key, last.field)

\* an hget of a field that was written before another field of the same hash
C6_Witness ==
    /\ last.op = "hget"
    /\ Len(history) = 2
    /\ history[1].key = last.key
    /\ history[2].key = last.key
    /\ history[1].field = last.field
    /\ history[2].field # last.field
    /\ last.ret = Some(history[1].value)

----------------------------------------------------------------------------
(* Converting requests *)

Targets == {"Echo", "SAdd", "SMembers", "SIsMember"}

CommandName(target) ==
    CASE target = "Echo" -> NameEcho
      [] target = "SAdd" -> NameSAdd
      [] target = "SMembers" -> NameSMembers
      [] target = "SIsMember" -> NameSIsMember

\* the fewest trailing arguments the command takes
MinTrailing(target) ==
    CASE target = "Echo" -> 1
      [] target = "SAdd" -> 2
      [] target = "SMembers" -> 1
      [] target = "SIsMember" -> 2

\* the first argument of the request, lower-cased, is the command's name
NamesCommand(r, target) ==
    /\ Len(r) >= 1
    /\ r[1].kind = "BulkString"
    /\ to_ascii_lowercase(r[1].bytes) = CommandName(target)

\* the positions of the request the command reads its arguments from
ReadPositions(r, target) ==
    IF target = "SAdd" THEN 2..Len(r) ELSE 2..(MinTrailing(target) + 1)

\* an error of the wrong-argument-count kind: that of the shared validation, or the
\* one SAdd raises itself
IsWrongArgCount(e) ==
    \/ e.kind = "WrongArgCount"
    \/ /\ e.kind = "InvalidArgument"
       /\ e.msg = "sadd command requires at least 2 parameters"

\* C8: a SADD request with fewer than 2 trailing arguments (SADD set, with no
\* member) fails with the wrong-argument-count error, and the store is unchanged
C8_SAddTooFewArguments ==
    [][(/\ last'.op = "try_from"
        /\ last'.target = "SAdd"
        /\ Len(req') - 1 < 2) =>
         /\ ~last'.result.ok
         /\ IsWrongArgCount(last'.result.err)
         /\ store' = store]_vars

\* SADD a, with no member, arriving at a store that holds a set
C8_Witness ==
    /\ last.op = "try_from"
    /\ last.target = "SAdd"
    /\ req = <<BulkString(NameSAdd), BulkString(StrA)>>
    /\ ~last.result.ok
    /\ IsWrongArgCount(last.result.err)
    /\ set_map # EmptyMap

\* C9: converting a request whose first argument, lower-cased, is not the name of
\* the target command fails with WrongCommand, for each of the four targets
C9_WrongNameFailsWithWrongCommand ==
    (/\ last.op = "try_from"
     /\ Len(req) >= 1
     /\ ~NamesCommand(req, last.target)) =>
        /\ ~last.result.ok
        /\ last.result.err.kind = "WrongCommand"

\* one of the errors of the taxonomy applies to the request, for this target: the
\* name, the number of trailing arguments, a frame kind, or the text of an argument
Malformed(r, target) ==
    \/ ~NamesCommand(r, target)
    \/ Len(r) - 1 < MinTrailing(target)
    \/ \E i \in ReadPositions(r, target) :
          r[i].kind # "BulkString" \/ ~utf8_valid(r[i].bytes)

\* the request is one of the command surface: the name, the number of arguments of
\* the table, each a bulk string of valid text
WellFormed(r, target) ==
    /\ NamesCommand(r, target)
    /\ IF target = "SAdd" THEN Len(r) - 1 >= 2 ELSE Len(r) - 1 = MinTrailing(target)
    /\ \A i \in 2..Len(r) : r[i].kind = "BulkString" /\ utf8_valid(r[i].bytes)

\* C10: the conversion of a malformed request yields an error and leaves the three
\* namespaces as they were; the conversion of a well-formed request yields a
\* command, and executing a command yields a reply frame
C10_MalformedFailsWellFormedSucceeds ==
    [][/\ last'.op = "try_from" =>
            /\ Malformed(req', last'.target) => ~last'.result.ok
            /\ ~last'.result.ok => store' = store
            /\ WellFormed(req', last'.target) => last'.result.ok
       /\ last'.op \in {"echo", "sadd", "smembers", "sismember"} =>
            last'.reply.kind \in {"BulkString", "Array"}]_vars

\* C11: the command a well-formed request converts to carries the arguments of the
\* request as they are: ECHO v the value v; SADD k m1..mn the key k and the values
\* m1..mn in order, repeats kept; SISMEMBER k m the key k and the value m;
\* SMEMBERS k the key k and the sort flag false
C11_ConversionKeepsArguments ==
    (last.op = "try_from" /\ WellFormed(req, last.target)) =>
        /\ last.result.ok
        /\ LET cmd == last.result.value
           IN  CASE last.target = "Echo" -> cmd = [value |-> req[2].bytes]
                 [] last.target = "SAdd" ->
                        cmd = [key |-> req[2].bytes,
                               values |-> [i \in 1..(Len(req) - 2) |-> req[i + 2].bytes]]
                 [] last.target = "SMembers" ->
                        cmd = [key |-> req[2].bytes, sort |-> FALSE]
                 [] last.target = "SIsMember" ->
                        cmd = [key |-> req[2].bytes, value |-> req[3].bytes]

\* SADD a B B: an upper-case member, twice
C11_Witness ==
    /\ last.op = "try_from"
    /\ last.target = "SAdd"
    /\ req = <<BulkString(<<83, 65, 68, 68>>), BulkString(StrA), BulkString(<<66>>),
               BulkString(<<66>>)>>
    /\ last.result.ok
    /\ last.result.value = [key |-> StrA, values |-> <<(<<66>>), (<<66>>)>>]

----------------------------------------------------------------------------
(* The namespaces together *)

WriteGrewHistory == Len(history') = Len(history) + 1

\* C12: a set leaves the hash and set namespaces as they were, an hset the scalar
\* and set namespaces, an sadd the scalar and hash namespaces, also for a key that
\* other namespaces hold; and each leaves the other keys of its own namespace
C12_NamespacesAreIndependent ==
    [][/\ (last'.op = "set" /\ WriteGrewHistory) =>
            /\ hmap' = hmap
            /\ set_map' = set_map
            /\ \A k \in Keys \ {last'.key} : get(map', k) = get(map, k)
       /\ (last'.op = "hset" /\ WriteGrewHistory) =>
            /\ map' = map
            /\ set_map' = set_map
            /\ \A k \in Keys \ {last'.key} : hgetall(hmap', k) = hgetall(hmap, k)
       /\ (last'.op = "sadd" /\ WriteGrewHistory) =>
            /\ map' = map
            /\ hmap' = hmap
            /\ \A k \in Keys \ {last'.cmd.key} :
                  smembers(set_map', k) = smembers(set_map, k)]_vars

\* a set of a key under which the hash namespace holds a hash
C12_Witness ==
    /\ last.op = "set"
    /\ last.key \in DOMAIN map
    /\ last.key \in DOMAIN hmap
    /\ hmap[last.key] # EmptyMap

ReadOps == {"get", "hget", "hmget", "hgetall", "echo", "smembers", "sismember"}

\* C15: get, hget, hmget, hgetall and the execution of ECHO, SMEMBERS and SISMEMBER
\* leave the three namespaces as they were; a key that was absent before the read
\* is absent after it
C15_ReadsLeaveTheStore ==
    [][last'.op \in ReadOps =>
         /\ store' = store
         /\ \A k \in Keys :
              /\ get(map, k) = None => get(map', k) = None
              /\ hgetall(hmap, k) = None => hgetall(hmap', k) = None
              /\ smembers(set_map, k) = None => smembers(set_map', k) = None]_vars

\* SISMEMBER then SMEMBERS of a key never written, in a store that holds another set:
\* the reply is empty and the key is still absent
C15_Witness ==
    /\ last.op = "smembers"
    /\ last.cmd.key \notin DOMAIN set_map
    /\ last.reply = RespArray(<<>>)
    /\ set_map # EmptyMap
    /\ smembers(set_map, last.cmd.key) = None
    /\ hgetall(hmap, last.cmd.key) = None

\* C20: no step removes a key, a hash field or a set member: a get, an hget or a
\* sismember that found something finds something after the step, and the set at a
\* key after the step contains the set before
C20_StoreOnlyGrows ==
    [][\/ store' = store
       \/ \A k \in Keys :
            /\ get(map, k).some => get(map', k).some
            /\ hgetall(hmap, k).some => hgetall(hmap', k).some
            /\ \A f \in Fields : hget(hmap, k, f).some => hget(hmap', k, f).some
            /\ smembers(set_map, k).some => smembers(set_map', k).some
            /\ \A m \in Members :
                  sismember(set_map, k, m) = 1 => sismember(set_map', k, m) = 1
            /\ SetAt(set_map, k) \subseteq SetAt(set_map', k)]_vars

\* two members added to a set one after the other, and two fields to a hash
C20_Witness ==
    \/ /\ Len(history) = 2
       /\ last.op = "sadd"
       /\ history[1].op = "sadd"
       /\ history[1].key = last.cmd.key
       /\ Cardinality(set_map[last.cmd.key]) = 2
    \/ /\ Len(history) = 2
       /\ last.op = "hset"
       /\ history[1].op = "hset"
       /\ history[1].key = last.key
       /\ Cardinality(DOMAIN hmap[last.key]) = 2

----------------------------------------------------------------------------
(* Surplus arguments *)

ExactCountTargets == {"Echo", "SMembers", "SIsMember"}

\* C14: an ECHO or a SMEMBERS request with more than 1 trailing argument, and a
\* SISMEMBER request with more than 2, fails with the wrong-argument-count error
C14_SurplusArgumentsRejected ==
    (/\ last.op = "try_from"
     /\ last.target \in ExactCountTargets
     /\ NamesCommand(req, last.target)
     /\ Len(req) - 1 > MinTrailing(last.target)) =>
        /\ ~last.result.ok
        /\ IsWrongArgCount(last.result.err)

----------------------------------------------------------------------------
(* Concurrent callers *)

Running(c) == callers[c].pc \in {"invoked", "outer", "inner"}

HeldBy(c) == {h \in locks : h.by = c}

\* the locks are taken outer first: who holds a container's lock holds the lock of
\* the key's shard, and who waits for a key's shard holds nothing
OuterThenInner ==
    \A c \in Callers :
       /\ callers[c].pc \in {"idle", "invoked", "done"} => HeldBy(c) = {}
       /\ \A h \in HeldBy(c) :
             h.lock[1] = "inner" =>
                Held(c, OuterLock(callers[c].call), LockMode(callers[c].call.op)) \in locks

\* the counts that the sadd calls on key k returned, added up
RECURSIVE SumOfCounts(_, _)
SumOfCounts(h, k) ==
    IF h = <<>> THEN 0
    ELSE (IF h[1].op = "sadd" /\ h[1].key = k THEN h[1].ret ELSE 0)
         + SumOfCounts(Tail(h), k)

\* caller c is between the entry lock of a write to key k and its return
Writing(c, op, k) ==
    /\ callers[c].pc \in {"outer", "inner"}
    /\ callers[c].call.op = op
    /\ callers[c].call.key = k

\* caller c is back from the call
Returned(c, op) == callers[c].pc = "done" /\ callers[c].call.op = op

\* C16: a step never replaces a container by a new one or drops what it holds, also
\* when two callers write to a key that does not exist; and what a returned hset or
\* sadd wrote is in the container (no other call writes another value to the field)
C16_CreateOnFirstWriteIsRaceFree ==
    /\ [](\A c \in Callers :
            /\ Returned(c, "hset") =>
                  hget(hmap, callers[c].call.key, callers[c].call.items[1])
                     = Some(callers[c].call.value)
            /\ Returned(c, "sadd") =>
                  Range(callers[c].call.items) \subseteq SetAt(set_map, callers[c].call.key))
    /\ [][\A k \in Keys :
            /\ k \in DOMAIN hmap =>
                  /\ k \in DOMAIN hmap'
                  /\ DOMAIN hmap[k] \subseteq DOMAIN hmap'[k]
            /\ k \in DOMAIN set_map =>
                  /\ k \in DOMAIN set_map'
                  /\ set_map[k] \subseteq set_map'[k]]_vars

\* two hsets of different fields of a key that a new Backend does not hold, both
\* returned after the second waited for the first, and both fields are there
C16_Witness ==
    /\ Len(history) = 2
    /\ Returned("c1", "hset") /\ Returned("c2", "hset")
    /\ callers["c1"].call.key = callers["c2"].call.key
    /\ callers["c1"].call.items # callers["c2"].call.items
    /\ DOMAIN hmap[callers["c1"].call.key] = Fields

\* C17: a set smembers returned holds all or none of the members that an sadd on
\* the same key brought in (those not in the set when the sadd took the entry)
C17_SAddIsAtomicForSMembers ==
    \A r \in Callers, w \in Callers :
       (/\ Returned(r, "smembers")
        /\ callers[r].ret.val.some
        /\ callers[w].call.op = "sadd"
        /\ callers[w].pc \in {"outer", "inner", "done"}
        /\ callers[w].call.key = callers[r].call.key) =>
           LET new == Range(callers[w].call.items) \ callers[w].before
               snapshot == callers[r].ret.val.value
           IN  new \subseteq snapshot \/ new \cap snapshot = {}

\* an sadd of two new members has inserted the first, and a smembers of the key is
\* waiting for the entry
C17_Witness ==
    /\ Writing("c1", "sadd", StrA)
    /\ callers["c1"].call.items = <<StrAB, StrB>>
    /\ callers["c1"].before = {}
    /\ set_map[StrA] = {StrAB}
    /\ callers["c2"].pc = "invoked"
    /\ callers["c2"].call.op = "smembers"
    /\ ~ENABLED AcquireOuter("c2")

\* C18: when no sadd on k is under way the counts the sadd calls on k returned add
\* up to the size of the set at k; two returned sadd(k, [m]) calls, m new to the
\* first of them, returned 1 and 0
C18_EachMemberCountedOnce ==
    /\ \A k \in Keys :
          (\A c \in Callers : ~Writing(c, "sadd", k)) =>
              SumOfCounts(history, k) = Cardinality(SetAt(set_map, k))
    /\ (/\ Returned("c1", "sadd") /\ Returned("c2", "sadd")
        /\ callers["c1"].call = callers["c2"].call
        /\ Len(callers["c1"].call.items) = 1
        /\ \E c \in Callers : callers["c1"].call.items[1] \notin callers[c].before) =>
           callers["c1"].ret.val + callers["c2"].ret.val = 1

\* two callers made the same sadd of one member; the second to take the entry
\* returned 0
C18_Witness ==
    /\ Returned("c1", "sadd") /\ Returned("c2", "sadd")
    /\ callers["c1"].call = callers["c2"].call
    /\ callers["c1"].call.items = <<StrAB>>
    /\ callers["c1"].ret.val = 1
    /\ callers["c2"].ret.val = 0
    /\ callers["c2"].before = {StrAB}

HoldsSnapshot(c) ==
    /\ callers[c].pc = "done"
    /\ callers[c].call.op \in SnapshotOps
    /\ callers[c].ret.val.some

\* C13: the hash or set that hgetall or smembers returned stays as it is through every
\* later step; its holder holds no lock; and a write to the key that another caller
\* makes while the snapshot is held returns
C13_SnapshotIsDecoupled ==
    /\ [][\A c \in Callers :
            HoldsSnapshot(c) => callers'[c].ret = callers[c].ret]_vars
    /\ [](\A c \in Callers : HoldsSnapshot(c) => HeldBy(c) = {})
    /\ \A c \in Callers, w \in Callers :
          (/\ HoldsSnapshot(c)
           /\ Running(w)
           /\ callers[w].call.op \in WriteOps
           /\ callers[w].call.key = callers[c].call.key) ~> (callers[w].pc = "done")

\* a caller holds the set smembers returned, and an sadd that came later has
\* returned and left the set at the key larger than the snapshot
C13_Witness ==
    /\ HoldsSnapshot("c1")
    /\ callers["c1"].call.op = "smembers"
    /\ Returned("c2", "sadd")
    /\ callers["c2"].call.key = callers["c1"].call.key
    /\ callers["c1"].ret.val.value = callers["c2"].before
    /\ set_map[callers["c1"].call.key] # callers["c1"].ret.val.value

\* C19: the locks are taken in the order outer, inner; while a call is running some
\* caller can take a step; and with fair scheduling every call that was made returns
C19_EveryCallReturns ==
    /\ [](OuterThenInner /\ ((\E c \in Callers : Running(c)) =>
                               (\E d \in Callers : ENABLED Step(d))))
    /\ \A c \in Callers : Running(c) ~> (callers[c].pc = "done")

\* both callers back from calls that took the two locks of the same key, one of them
\* a write
C19_Witness ==
    /\ \A c \in Callers : callers[c].pc = "done"
    /\ callers["c1"].call.op = "hset"
    /\ callers["c2"].call.op = "hmget"
    /\ callers["c1"].call.key = callers["c2"].call.key
    /\ \E i \in 1..2 : callers["c2"].ret.val[i] = Some(ValueW)

====
